---- MODULE Spec2Model ----
(***************************************************************************)
(* Ingestion and query pipelines of the ministry assistant:                *)
(*   src/app.py                              web upload / delete / chat    *)
(*   src/embedding_pipeline.py               folder ingestion              *)
(*   src/bible_processing/process_jsonl.py   line-delimited ingestion      *)
(*                                                                         *)
(* The bucket of the object storage is not part of the state: no handler   *)
(* reads it, and a call to it is modelled by its outcome (it returns or    *)
(* raises).                                                                *)
(* A text is a sequence of one-character strings.  A file name is modelled *)
(* by its rank in ascending string order, so that sorted() is ascending    *)
(* order of the ranks.  An embedding vector is modelled by its length.     *)
(***************************************************************************)
EXTENDS Integers, Sequences, FiniteSets, Bags, TLC

VARIABLES
  files,      \* file_name values of the rows of table "files"
  documents,  \* bag of the rows of table "documents"
  audit,      \* rows of table "rag_query_history", oldest first
  last,       \* the request just handled, with what it returns to its caller
  call,       \* one application of a chunker: its arguments and result
  threads     \* the requests being handled on concurrent threads, each with
              \* its position in its handler

vars == <<files, documents, audit, last, call, threads>>
sysvars == <<files, documents, audit, last, threads>>

(***************************************************************************)
(* Bounds of the model.                                                    *)
(***************************************************************************)
MaxTextLen == 7
MaxSize == 3

Alphabet == {"a", "b", " "}
Texts == UNION {[1..n -> Alphabet] : n \in 0..MaxTextLen}
Sizes == 1..MaxSize
Overlaps == 0..(MaxSize + 1)

Min(a, b) == IF a <= b THEN a ELSE b
Max(a, b) == IF a >= b THEN a ELSE b

(***************************************************************************)
(* Python string helpers, computed as the interpreter computes them.       *)
(***************************************************************************)
IsSpace(c) == c \in {" ", "\n", "\t"}

\* str.split() with no argument: the maximal runs of non-whitespace.
RECURSIVE SplitFrom(_, _, _, _)
SplitFrom(text, i, cur, acc) ==
  IF i > Len(text)
    THEN IF cur = <<>> THEN acc ELSE Append(acc, cur)
    ELSE IF IsSpace(text[i])
      THEN SplitFrom(text, i + 1, <<>>, IF cur = <<>> THEN acc ELSE Append(acc, cur))
      ELSE SplitFrom(text, i + 1, Append(cur, text[i]), acc)

split(text) == SplitFrom(text, 1, <<>>, <<>>)

\* " ".join(words)
RECURSIVE join(_)
join(words) ==
  IF words = <<>> THEN <<>>
  ELSE IF Len(words) = 1 THEN words[1]
  ELSE words[1] \o <<" ">> \o join(Tail(words))

\* str.strip()
RECURSIVE lstrip(_)
lstrip(text) ==
  IF text # <<>> /\ IsSpace(Head(text)) THEN lstrip(Tail(text)) ELSE text

RECURSIVE rstrip(_)
rstrip(text) ==
  IF text # <<>> /\ IsSpace(text[Len(text)])
    THEN rstrip(SubSeq(text, 1, Len(text) - 1)) ELSE text

strip(text) == rstrip(lstrip(text))

\* words[i:j] with 0 <= i, 0-based and end-exclusive, clipped to the list.
Slice(words, i, j) == SubSeq(words, i + 1, Min(j, Len(words)))

(***************************************************************************)
(* Chunking.                                                               *)
(***************************************************************************)
RECURSIVE window_loop_no_break(_, _, _, _, _)
window_loop_no_break(n, chunk_size, step, i, acc) ==
  IF i >= n THEN acc
  ELSE window_loop_no_break(n, chunk_size, step, i + step,
                            Append(acc, <<i, Min(i + chunk_size, n)>>))

\* for i in range(0, n, step): window [i, i+chunk_size); break once the
\* window's end reaches n.  Yields the windows as <<start, end>> pairs,
\* 0-based and end-exclusive, the end clipped to n as slicing clips it.
RECURSIVE window_loop(_, _, _, _, _)
window_loop(n, chunk_size, step, i, acc) ==
  IF i >= n THEN acc
  ELSE LET out == Append(acc, <<i, Min(i + chunk_size, n)>>)
       IN IF i + chunk_size >= n THEN out
          ELSE window_loop(n, chunk_size, step, i + step, out)

\* range(0, n, step) for a step that is not positive: a zero step raises
\* ValueError, a negative step gives the empty range.
windows(n, chunk_size, step) ==
  IF step = 0 THEN [raised |-> TRUE, windows |-> <<>>]
  ELSE IF step < 0 THEN [raised |-> FALSE, windows |-> <<>>]
  ELSE [raised |-> FALSE, windows |-> window_loop(n, chunk_size, step, 0, <<>>)]

chunks_of(words, ws) == [k \in 1..Len(ws) |-> join(Slice(words, ws[k][1], ws[k][2]))]

step_no_overlap(chunk_size, overlap) == chunk_size

\* app.py: step = max(1, chunk_size - overlap)
app_step(chunk_size, overlap) == Max(1, chunk_size - overlap)

chunk_text_keeps_empty(text, chunk_size, overlap) ==
  LET words == split(text) IN
  IF Len(words) <= chunk_size
    THEN [raised |-> FALSE, chunks |-> <<join(words)>>]
    ELSE LET w == windows(Len(words), chunk_size, app_step(chunk_size, overlap))
         IN [raised |-> w.raised, chunks |-> chunks_of(words, w.windows)]

\* app.py chunk_text, collected as list(chunk_text(...)) collects it.
chunk_text(text, chunk_size, overlap) ==
  LET words == split(text) IN
  IF words = <<>> THEN [raised |-> FALSE, chunks |-> <<>>]
  ELSE IF Len(words) <= chunk_size
    THEN [raised |-> FALSE, chunks |-> <<join(words)>>]
    ELSE LET w == windows(Len(words), chunk_size, app_step(chunk_size, overlap))
         IN [raised |-> w.raised, chunks |-> chunks_of(words, w.windows)]

\* embedding_pipeline.py: step = chunk_size - overlap
pipeline_step(chunk_size, overlap) == chunk_size - overlap

\* embedding_pipeline.py chunk_text.
pipeline_chunk_text(text, chunk_size, overlap) ==
  LET words == split(text) IN
  IF Len(words) <= chunk_size
    THEN [raised |-> FALSE, chunks |-> <<join(words)>>]
    ELSE LET w == windows(Len(words), chunk_size, pipeline_step(chunk_size, overlap))
         IN [raised |-> w.raised, chunks |-> chunks_of(words, w.windows)]

(***************************************************************************)
(* The chunkers applied to every bounded input.                            *)
(***************************************************************************)
NoCall == [text |-> <<>>, chunk_size |-> 1, overlap |-> 0, fn |-> "none",
           raised |-> FALSE, chunks |-> <<>>]

InitStore ==
  /\ files = {}
  /\ documents = EmptyBag
  /\ audit = <<>>
  /\ last = [op |-> "none"]

\* No request is being handled on a thread of its own.
NoThreads == <<>>

InitChunk ==
  /\ InitStore
  /\ threads = NoThreads
  /\ \E t \in Texts, s \in Sizes, o \in Overlaps :
       call = [text |-> t, chunk_size |-> s, overlap |-> o, fn |-> "pending",
               raised |-> FALSE, chunks |-> <<>>]

CallChunkText ==
  /\ call.fn = "pending"
  /\ LET r == chunk_text(call.text, call.chunk_size, call.overlap)
     IN call' = [call EXCEPT !.fn = "app", !.raised = r.raised, !.chunks = r.chunks]
  /\ UNCHANGED sysvars

CallPipelineChunkText ==
  /\ call.fn = "pending"
  /\ LET r == pipeline_chunk_text(call.text, call.chunk_size, call.overlap)
     IN call' = [call EXCEPT !.fn = "pipeline", !.raised = r.raised, !.chunks = r.chunks]
  /\ UNCHANGED sysvars

NextChunk == CallChunkText \/ CallPipelineChunkText

SpecChunk == InitChunk /\ [][NextChunk]_vars

(***************************************************************************)
(* The stores and the requests.                                            *)
(***************************************************************************)
\* Bounds: the number of file names, of tokens of an extracted text, of
\* rows of table "documents", of lines of a line-delimited file and of
\* audit rows.  CHUNK_SIZE (500), CHUNK_OVERLAP (100), BATCH_SIZE (100) and
\* TOP_K (10) are the program's constants scaled down to these bounds; the
\* handlers read them only through comparisons and strides.
MaxNames == 2
MaxDocTokens == 3
MaxRows == 3
MaxLines == 3
MaxAudit == 1
CHUNK_SIZE == 2
CHUNK_OVERLAP == 1
BATCH_SIZE == 2
TOP_K == 2

\* app.py, embedding_pipeline.py: VECTOR_DIM; process_jsonl.py: VECTOR_DIM
VECTOR_DIM == 3072
JSONL_VECTOR_DIM == 1536

Names == 1..MaxNames
Dims == {VECTOR_DIM, JSONL_VECTOR_DIM}

\* The text an extractor finds in a file: whitespace alone, or up to
\* MaxDocTokens alternating tokens separated by newlines.
DocWords(n) == [k \in 1..n |-> IF k % 2 = 1 THEN <<"a">> ELSE <<"b">>]
RECURSIVE Lines(_)
Lines(words) ==
  IF words = <<>> THEN <<>>
  ELSE IF Len(words) = 1 THEN words[1]
  ELSE words[1] \o <<"\n">> \o Lines(Tail(words))
DocTexts == {Lines(DocWords(n)) : n \in 0..MaxDocTokens} \cup {<<" ">>}

\* What the provider and the store do with one chunk: the embedding call
\* raises or returns a vector of some length, the insert raises or succeeds.
ChunkOutcomes ==
  {[embed |-> "raises", vec |-> 0, insert |-> "skipped"],
   [embed |-> "ok", vec |-> VECTOR_DIM, insert |-> "raises"]} \cup
  {[embed |-> "ok", vec |-> d, insert |-> "ok"] : d \in Dims}

\* A row of table "documents"; of its metadata, source_file and chunk_index
\* are kept (file_type, book, chapter, verse and version are never read).
Row(source_file, chunk_index, content, embedding) ==
  [source_file |-> source_file, chunk_index |-> chunk_index,
   content |-> content, embedding |-> embedding]

RowsOf(docs, name) == {r \in BagToSet(docs) : r.source_file = name}
CountOf(docs, name) ==
  BagCardinality([r \in RowsOf(docs, name) |-> docs[r]])

delete_first_chunk(docs, name) ==
  [r \in {x \in BagToSet(docs) : ~(x.source_file = name /\ x.chunk_index = 0)} |-> docs[r]]

\* supabase.table("documents").delete().eq("metadata->>source_file", name)
delete_by_source(docs, name) ==
  [r \in {x \in BagToSet(docs) : x.source_file # name} |-> docs[r]]

\* extract_text of app.py: an unsupported extension gives "", a parser that
\* raises is caught and gives "".
extract_text(file) ==
  IF ~file.supported THEN <<>>
  ELSE IF file.parse_raises THEN <<>>
  ELSE file.text

\* extract_text of embedding_pipeline.py: a parser that raises is not caught.
pipeline_extract_text(file) ==
  IF ~file.supported THEN [raised |-> FALSE, text |-> <<>>]
  ELSE IF file.parse_raises THEN [raised |-> TRUE, text |-> <<>>]
  ELSE [raised |-> FALSE, text |-> file.text]

\* embed_text: a vector of another length than VECTOR_DIM is logged and
\* returned all the same.
embed_text(o) ==
  [raised |-> o.embed = "raises", emb |-> o.vec, warned |-> o.vec # VECTOR_DIM]

RECURSIVE store_loop_stops(_, _, _, _, _)
store_loop_stops(filename, chunks, outcomes, i, acc) ==
  IF i > Len(chunks) THEN acc
  ELSE LET e == embed_text(outcomes[i])
           tried == [acc EXCEPT !.attempted = @ \cup {i - 1}]
       IN IF e.raised \/ outcomes[i].insert = "raises"
            THEN tried
            ELSE store_loop_stops(filename, chunks, outcomes, i + 1,
                   [tried EXCEPT
                      !.documents = @ (+) SetToBag({Row(filename, i - 1, chunks[i], e.emb)}),
                      !.total = @ + 1])

\* The loop of process_and_store over enumerate(chunks); i is 1-based here,
\* chunk_index is i - 1.  acc.attempted is the set of chunk indices whose
\* embedding was requested.
RECURSIVE store_loop(_, _, _, _, _)
store_loop(filename, chunks, outcomes, i, acc) ==
  IF i > Len(chunks) THEN acc
  ELSE LET e == embed_text(outcomes[i])
           tried == [acc EXCEPT !.attempted = @ \cup {i - 1}]
       IN IF e.raised \/ outcomes[i].insert = "raises"
            THEN store_loop(filename, chunks, outcomes, i + 1, tried)
            ELSE store_loop(filename, chunks, outcomes, i + 1,
                   [tried EXCEPT
                      !.documents = @ (+) SetToBag({Row(filename, i - 1, chunks[i], e.emb)}),
                      !.total = @ + 1])

\* process_and_store(path, filename)
process_and_store(docs, file, filename, outcomes) ==
  LET text == extract_text(file) IN
  IF strip(text) = <<>>
    THEN [documents |-> docs, result |-> [status |-> "no_text"],
          chunks |-> <<>>, attempted |-> {}]
    ELSE LET chunks == chunk_text(text, CHUNK_SIZE, CHUNK_OVERLAP).chunks
             r == store_loop(filename, chunks, outcomes, 1,
                             [documents |-> docs, total |-> 0, attempted |-> {}])
         IN [documents |-> r.documents,
             result |-> [status |-> "success", chunks |-> r.total],
             chunks |-> chunks, attempted |-> r.attempted]

NChunks(text) ==
  IF strip(text) = <<>> THEN 0 ELSE Len(chunk_text(text, CHUNK_SIZE, CHUNK_OVERLAP).chunks)

\* A file as the extractor sees it: of an unsupported format, one whose
\* parser raises, or one with text.
FileInputs ==
  {[supported |-> FALSE, parse_raises |-> FALSE, text |-> <<>>],
   [supported |-> TRUE, parse_raises |-> TRUE, text |-> <<>>]} \cup
  {[supported |-> TRUE, parse_raises |-> FALSE, text |-> t] : t \in DocTexts}

Init ==
  /\ InitStore
  /\ call = NoCall
  /\ threads = NoThreads

\* No request is being handled: the last response has been delivered.
Idle == last.op = "none"

\* The response reaches the caller.
deliver ==
  /\ ~Idle
  /\ last' = [op |-> "none"]
  /\ UNCHANGED <<files, documents, audit, call, threads>>

Reply(op, name, code, body) == [op |-> op, name |-> name, code |-> code, body |-> body]

(***************************************************************************)
(* POST /upload (app.py upload_file)                                       *)
(***************************************************************************)
\* role != "admin": 403
upload_unauthorized ==
  /\ Idle
  /\ \E name \in Names :
       /\ last' = Reply("upload", name, 403, [error |-> "Unauthorized"])
       /\ UNCHANGED <<files, documents, audit, call, threads>>

\* request.files has no "file": 400
upload_no_file ==
  /\ Idle
  /\ last' = [op |-> "upload", code |-> 400, body |-> [error |-> "No file provided"]]
  /\ UNCHANGED <<files, documents, audit, call, threads>>

\* supabase.storage.from_(BUCKET).upload raises or answers with an error, or
\* supabase.table("files").insert raises: 500, nothing registered
upload_raises ==
  /\ Idle
  /\ \E name \in Names :
       /\ last' = Reply("upload", name, 500, [error |-> "Exception"])
       /\ UNCHANGED <<files, documents, audit, call, threads>>

\* the object is stored, the file registered, and process_and_store runs
upload_processed ==
  /\ Idle
  /\ \E name \in Names, file \in FileInputs :
       \E outcomes \in [1..NChunks(extract_text(file)) -> ChunkOutcomes] :
         LET r == process_and_store(documents, file, name, outcomes) IN
         /\ BagCardinality(documents) + Len(r.chunks) <= MaxRows
         /\ files' = files \cup {name}
         /\ documents' = r.documents
         /\ last' = [op |-> "upload", name |-> name, code |-> 200,
                     body |-> [message |-> "uploaded", embedding_result |-> r.result],
                     before |-> documents, chunks |-> r.chunks,
                     outcomes |-> outcomes, attempted |-> r.attempted, file |-> file]
         /\ UNCHANGED <<audit, call, threads>>

upload_file ==
  \/ upload_unauthorized
  \/ upload_no_file
  \/ upload_raises
  \/ upload_processed

(***************************************************************************)
(* DELETE /delete/<name> (app.py delete_file)                              *)
(***************************************************************************)
delete_unauthorized ==
  /\ Idle
  /\ \E name \in Names :
       /\ last' = Reply("delete", name, 403, [error |-> "Unauthorized"])
       /\ UNCHANGED <<files, documents, audit, call, threads>>

\* supabase.storage.from_(BUCKET).remove or supabase.table("files").delete()
\* raises: 500, nothing deleted from either table
delete_raises_early ==
  /\ Idle
  /\ \E name \in Names :
       /\ last' = Reply("delete", name, 500, [error |-> "Exception"])
       /\ UNCHANGED <<files, documents, audit, call, threads>>

\* supabase.table("documents").delete() raises: 500, the registry row is gone
delete_documents_raises ==
  /\ Idle
  /\ \E name \in Names :
       /\ files' = files \ {name}
       /\ last' = Reply("delete", name, 500, [error |-> "Exception"])
       /\ UNCHANGED <<documents, audit, call, threads>>

delete_done ==
  /\ Idle
  /\ \E name \in Names :
       /\ files' = files \ {name}
       /\ documents' = delete_by_source(documents, name)
       /\ last' = [op |-> "delete", name |-> name, code |-> 200,
                   body |-> [message |-> "deleted"], before |-> documents]
       /\ UNCHANGED <<audit, call, threads>>

delete_file ==
  \/ delete_unauthorized
  \/ delete_raises_early
  \/ delete_documents_raises
  \/ delete_done

(***************************************************************************)
(* Folder ingestion (embedding_pipeline.py process_file)                   *)
(***************************************************************************)
\* upload_file_to_storage: the registry row is written when neither the
\* storage upload nor the insert raises; an exception is printed and dropped.
upload_file_to_storage(registry, name, put) ==
  IF put = "ok" THEN registry \cup {name} ELSE registry

\* The loop of process_file over enumerate(chunks): upload_to_supabase embeds
\* (an exception reaches the loop's except) and inserts (an exception is
\* caught inside upload_to_supabase).
RECURSIVE pipeline_loop(_, _, _, _, _)
pipeline_loop(file_name, chunks, outcomes, idx, acc) ==
  IF idx > Len(chunks) THEN acc
  ELSE LET e == embed_text(outcomes[idx])
           tried == [acc EXCEPT !.attempted = @ \cup {idx - 1}]
       IN IF e.raised \/ outcomes[idx].insert = "raises"
            THEN pipeline_loop(file_name, chunks, outcomes, idx + 1, tried)
            ELSE pipeline_loop(file_name, chunks, outcomes, idx + 1,
                   [tried EXCEPT
                      !.documents = @ (+) SetToBag({Row(file_name, idx - 1, chunks[idx], e.emb)})])

PipelineNChunks(file) ==
  LET x == pipeline_extract_text(file) IN
  IF x.raised \/ strip(x.text) = <<>> THEN 0
  ELSE Len(pipeline_chunk_text(x.text, CHUNK_SIZE, CHUNK_OVERLAP).chunks)

process_file ==
  /\ Idle
  /\ \E name \in Names, file \in FileInputs, put \in {"ok", "raises"} :
       \E outcomes \in [1..PipelineNChunks(file) -> ChunkOutcomes] :
         LET raw == pipeline_extract_text(file) IN
         /\ files' = upload_file_to_storage(files, name, put)
         /\ IF raw.raised
              THEN \* the exception leaves process_file; main prints "Failed file"
                   /\ last' = [op |-> "process_file", name |-> name, code |-> 0,
                               body |-> [returned |-> "raised"], file |-> file]
                   /\ UNCHANGED documents
            ELSE IF strip(raw.text) = <<>>
              THEN /\ last' = [op |-> "process_file", name |-> name, code |-> 0,
                               body |-> [returned |-> "skipped"], file |-> file]
                   /\ UNCHANGED documents
            ELSE LET chunks == pipeline_chunk_text(raw.text, CHUNK_SIZE, CHUNK_OVERLAP).chunks
                     r == pipeline_loop(name, chunks, outcomes, 1,
                                        [documents |-> documents, attempted |-> {}])
                 IN /\ BagCardinality(documents) + Len(chunks) <= MaxRows
                    /\ documents' = r.documents
                    /\ last' = [op |-> "process_file", name |-> name, code |-> 0,
                                body |-> [returned |-> "None"],
                                before |-> documents, chunks |-> chunks,
                                outcomes |-> outcomes, attempted |-> r.attempted,
                                file |-> file]
         /\ UNCHANGED <<audit, call, threads>>

(***************************************************************************)
(* Line-delimited ingestion (process_jsonl.py process_jsonl_file)          *)
(***************************************************************************)
\* A line of the file: not JSON, a record without usable text, or a record
\* with text.
JsonlLines ==
  {[json |-> FALSE, text |-> <<>>],
   [json |-> TRUE, text |-> <<" ">>],
   [json |-> TRUE, text |-> <<"a", " ", "b", " ">>]}

\* What the provider and the store do with one batch.
BatchOutcomes ==
  {[embed |-> "raises", vec |-> 0, insert |-> "skipped"],
   [embed |-> "ok", vec |-> JSONL_VECTOR_DIM, insert |-> "raises"]} \cup
  {[embed |-> "ok", vec |-> d, insert |-> "ok"] : d \in Dims}

\* the reading loop: the records with non-blank text, in file order
RECURSIVE read_chunks(_)
read_chunks(lines) ==
  IF lines = <<>> THEN <<>>
  ELSE IF Head(lines).json /\ strip(Head(lines).text) # <<>>
    THEN <<Head(lines)>> \o read_chunks(Tail(lines))
    ELSE read_chunks(Tail(lines))

\* embed_batch: one vector per text, or [None] * len(texts) when the call
\* raises (None is modelled by 0)
embed_batch(texts, o) ==
  IF o.embed = "raises" THEN [k \in 1..Len(texts) |-> 0]
  ELSE [k \in 1..Len(texts) |-> o.vec]

\* the payload of upload_batch: chunk_index is the position in the batch
RECURSIVE batch_payload(_, _, _, _)
batch_payload(chunks, embeddings, file_name, idx) ==
  IF idx >= Len(chunks) \/ idx >= Len(embeddings) THEN <<>>
  ELSE IF embeddings[idx + 1] = 0 \/ strip(chunks[idx + 1].text) = <<>>
    THEN batch_payload(chunks, embeddings, file_name, idx + 1)
    ELSE <<Row(file_name, idx, strip(chunks[idx + 1].text), embeddings[idx + 1])>>
           \o batch_payload(chunks, embeddings, file_name, idx + 1)

RECURSIVE SeqToBag(_)
SeqToBag(rows) ==
  IF rows = <<>> THEN EmptyBag ELSE SetToBag({Head(rows)}) (+) SeqToBag(Tail(rows))

upload_batch(docs, chunks, embeddings, file_name, o) ==
  LET payload == batch_payload(chunks, embeddings, file_name, 0) IN
  IF payload # <<>> /\ o.insert # "raises" THEN docs (+) SeqToBag(payload) ELSE docs

NBatches(n) == (n + BATCH_SIZE - 1) \div BATCH_SIZE

\* for i in range(0, len(chunks), BATCH_SIZE); b is the number of the batch
RECURSIVE batch_loop(_, _, _, _, _)
batch_loop(docs, chunks, file_name, outcomes, b) ==
  IF (b - 1) * BATCH_SIZE >= Len(chunks) THEN docs
  ELSE LET i == (b - 1) * BATCH_SIZE
           batch == Slice(chunks, i, i + BATCH_SIZE)
           texts == [k \in 1..Len(batch) |-> strip(batch[k].text)]
           embeddings == embed_batch(texts, outcomes[b])
       IN batch_loop(upload_batch(docs, batch, embeddings, file_name, outcomes[b]),
                     chunks, file_name, outcomes, b + 1)

process_jsonl_file ==
  /\ Idle
  /\ \E name \in Names, put \in {"ok", "raises"}, n \in 0..MaxLines :
       \E lines \in [1..n -> JsonlLines] :
         LET chunks == read_chunks(lines) IN
         \E outcomes \in [1..NBatches(Len(chunks)) -> BatchOutcomes] :
           /\ BagCardinality(documents) + Len(chunks) <= MaxRows
           /\ files' = upload_file_to_storage(files, name, put)
           /\ documents' = batch_loop(documents, chunks, name, outcomes, 1)
           /\ last' = [op |-> "process_jsonl_file", name |-> name, code |-> 0,
                       body |-> [returned |-> "None"], records |-> Len(chunks)]
           /\ UNCHANGED <<audit, call, threads>>

(***************************************************************************)
(* POST /chat (app.py chat)                                                *)
(***************************************************************************)
Questions == {<<>>, <<" ">>, <<"q", " ">>}
NoRelevant == "No relevant materials.\n**Sources:** None"

\* The rows match_documents_filtered may rank: those of the selected files,
\* or every row when no file is selected.
Eligible(docs, selected_files) ==
  IF selected_files = {} THEN BagToSet(docs)
  ELSE {r \in BagToSet(docs) : r.source_file \in selected_files}

\* The answers of match_documents_filtered: at most match_count of the
\* eligible rows, in the order of the ranking, none more often than stored.
Matches(docs, selected_files, match_count) ==
  LET E == Eligible(docs, selected_files) IN
  {m \in UNION {[1..n -> E] : n \in 0..match_count} :
     \A r \in E : Cardinality({k \in 1..Len(m) : m[k] = r}) <= docs[r]}

\* s = m.get("source_file") or m.get("metadata", {}).get("source_file", "Unknown")
source_of(m) == m.source_file

\* the for loop over matches: the blocks of the prompt and the set srcs
RECURSIVE context_loop(_, _)
context_loop(matches, acc) ==
  IF matches = <<>> THEN acc
  ELSE LET m == Head(matches)
           c == strip(m.content)
           s == source_of(m)
       IN IF c # <<>>
            THEN context_loop(Tail(matches),
                   [blocks |-> Append(acc.blocks, [source_file |-> s, content |-> c]),
                    srcs |-> acc.srcs \cup {s}])
            ELSE context_loop(Tail(matches), acc)

\* sorted(srcs)
RECURSIVE sorted(_)
sorted(S) ==
  IF S = {} THEN <<>>
  ELSE LET lo == CHOOSE x \in S : \A y \in S : x <= y
       IN <<lo>> \o sorted(S \ {lo})

\* list(srcs): the elements of the set, once each, in the order the hash
\* table holds them, which is any order.
list_of_set(S) ==
  {q \in [1..Cardinality(S) -> S] : \A x \in S : \E k \in 1..Cardinality(S) : q[k] = x}

\* retrieved: match_documents_filtered returned; prompted: the chat model
\* was called.
ChatReply(code, body, selected_files, retrieved, matches, prompted) ==
  [op |-> "chat", code |-> code, body |-> body, selected_files |-> selected_files,
   retrieved |-> retrieved, matches |-> matches, prompted |-> prompted]

\* not user_input: 400
chat_no_input ==
  /\ Idle
  /\ \E user_input \in Questions, selected_files \in SUBSET Names :
       /\ strip(user_input) = <<>>
       /\ last' = ChatReply(400, [error |-> "No input provided"], selected_files,
                            FALSE, <<>>, FALSE)
       /\ UNCHANGED <<files, documents, audit, call, threads>>

\* oai.embeddings.create or supabase.rpc raises: 500
chat_retrieval_raises ==
  /\ Idle
  /\ \E user_input \in Questions, selected_files \in SUBSET Names :
       /\ strip(user_input) # <<>>
       /\ last' = ChatReply(500, [error |-> "Exception"], selected_files,
                            FALSE, <<>>, FALSE)
       /\ UNCHANGED <<files, documents, audit, call, threads>>

chat_no_matches_prompts ==
  /\ Idle
  /\ \E user_input \in Questions, selected_files \in SUBSET Names :
       \E matches \in Matches(documents, selected_files, TOP_K) :
         /\ strip(user_input) # <<>>
         /\ matches = <<>>
         /\ last' = ChatReply(200,
                       [response |-> "ans", sources |-> <<>>],
                       selected_files, TRUE, matches, TRUE)
         /\ UNCHANGED <<files, documents, audit, call, threads>>

\* not matches: the fixed response, before any prompt is built
chat_no_matches ==
  /\ Idle
  /\ \E user_input \in Questions, selected_files \in SUBSET Names :
       \E matches \in Matches(documents, selected_files, TOP_K) :
         /\ strip(user_input) # <<>>
         /\ matches = <<>>
         /\ last' = ChatReply(200, [response |-> NoRelevant], selected_files,
                              TRUE, matches, FALSE)
         /\ UNCHANGED <<files, documents, audit, call, threads>>

chat_model_raises_logs ==
  /\ Idle
  /\ \E user_input \in Questions, selected_files \in SUBSET Names :
       \E matches \in Matches(documents, selected_files, TOP_K) :
         /\ strip(user_input) # <<>>
         /\ matches # <<>>
         /\ Len(audit) < MaxAudit
         /\ audit' = Append(audit,
              [query_text |-> strip(user_input), matched_docs |-> Len(matches),
               model_response |-> "", top_k |-> TOP_K])
         /\ last' = ChatReply(500, [error |-> "Exception"], selected_files,
                              TRUE, matches, TRUE)
         /\ UNCHANGED <<files, documents, call, threads>>

\* some rows match and oai.chat.completions.create raises: 500
chat_model_raises ==
  /\ Idle
  /\ \E user_input \in Questions, selected_files \in SUBSET Names :
       \E matches \in Matches(documents, selected_files, TOP_K) :
         /\ strip(user_input) # <<>>
         /\ matches # <<>>
         /\ last' = ChatReply(500, [error |-> "Exception"], selected_files,
                              TRUE, matches, TRUE)
         /\ UNCHANGED <<files, documents, audit, call, threads>>

chat_answered_log_fatal ==
  /\ Idle
  /\ \E user_input \in Questions, selected_files \in SUBSET Names,
        log_insert \in {"ok", "raises"} :
       \E matches \in Matches(documents, selected_files, TOP_K) :
         LET ctx == context_loop(matches, [blocks |-> <<>>, srcs |-> {}]) IN
         \E sources \in list_of_set(ctx.srcs) :
           /\ strip(user_input) # <<>>
           /\ matches # <<>>
           /\ IF log_insert = "ok"
                THEN /\ Len(audit) < MaxAudit
                     /\ audit' = Append(audit,
                          [query_text |-> strip(user_input), matched_docs |-> Len(matches),
                           model_response |-> "ans", top_k |-> TOP_K])
                     /\ last' = [op |-> "chat", code |-> 200,
                                 body |-> [response |-> [ans |-> "ans", src_txt |-> sorted(ctx.srcs)],
                                           sources |-> sources],
                                 selected_files |-> selected_files, retrieved |-> TRUE,
                                 matches |-> matches, prompted |-> TRUE,
                                 context |-> ctx.blocks, log |-> log_insert]
                ELSE /\ UNCHANGED audit
                     /\ last' = [op |-> "chat", code |-> 500,
                                 body |-> [error |-> "Exception"],
                                 selected_files |-> selected_files, retrieved |-> TRUE,
                                 matches |-> matches, prompted |-> TRUE,
                                 context |-> ctx.blocks, log |-> log_insert]
           /\ UNCHANGED <<files, documents, call, threads>>

\* the model answers; the audit insert succeeds or raises (logged, dropped).
\* Of the audit row, the asker's identity is left out and the snapshot of
\* the matches is kept as their number.
chat_answered ==
  /\ Idle
  /\ \E user_input \in Questions, selected_files \in SUBSET Names,
        log_insert \in {"ok", "raises"} :
       \E matches \in Matches(documents, selected_files, TOP_K) :
         LET ctx == context_loop(matches, [blocks |-> <<>>, srcs |-> {}]) IN
         \E sources \in list_of_set(ctx.srcs) :
           /\ strip(user_input) # <<>>
           /\ matches # <<>>
           /\ IF log_insert = "ok"
                THEN /\ Len(audit) < MaxAudit
                     /\ audit' = Append(audit,
                          [query_text |-> strip(user_input), matched_docs |-> Len(matches),
                           model_response |-> "ans", top_k |-> TOP_K])
                ELSE UNCHANGED audit
           /\ last' = [op |-> "chat", code |-> 200,
                       body |-> [response |-> [ans |-> "ans", src_txt |-> sorted(ctx.srcs)],
                                 sources |-> sources],
                       selected_files |-> selected_files, retrieved |-> TRUE,
                       matches |-> matches, prompted |-> TRUE, context |-> ctx.blocks,
                       log |-> log_insert]
           /\ UNCHANGED <<files, documents, call, threads>>

chat ==
  \/ chat_no_input
  \/ chat_retrieval_raises
  \/ chat_no_matches
  \/ chat_model_raises
  \/ chat_answered

Next == upload_file \/ delete_file \/ process_file \/ process_jsonl_file \/ chat \/ deliver

Spec == Init /\ [][Next]_vars

(***************************************************************************)
(* One POST /upload and one DELETE /delete/<name> for the same name, each  *)
(* on a thread of its own (app.run(..., threaded=True)).  A step is one    *)
(* call to the storage or to a table; the calls of one handler happen in   *)
(* the order of its code, the calls of the two handlers in any order.      *)
(***************************************************************************)
\* every embedding and every insert of an ingestion succeeds
all_stored(n) == [i \in 1..n |-> [embed |-> "ok", vec |-> VECTOR_DIM, insert |-> "ok"]]

\* The tables before the two requests: the name has never been uploaded, or
\* an earlier upload of it has registered it and stored its chunks.
InitConc ==
  /\ audit = <<>>
  /\ last = [op |-> "none"]
  /\ call = NoCall
  /\ \E name \in Names, file \in FileInputs :
       /\ \/ files = {} /\ documents = EmptyBag
          \/ \E prior \in FileInputs :
               /\ files = {name}
               /\ documents = process_and_store(EmptyBag, prior, name,
                                 all_stored(NChunks(extract_text(prior)))).documents
       /\ threads = [upload |-> [pc |-> "storage", name |-> name, file |-> file,
                                 chunks |-> <<>>, i |-> 0, total |-> 0, code |-> 0],
                     delete |-> [pc |-> "storage", name |-> name, code |-> 0]]

Racing == DOMAIN threads = {"upload", "delete"}

\* upload_file: res = supabase.storage.from_(BUCKET).upload(name, data)
up_storage ==
  /\ Racing
  /\ threads.upload.pc = "storage"
  /\ \E put \in {"ok", "raises"} :
       threads' = IF put = "ok"
                    THEN [threads EXCEPT !.upload.pc = "files"]
                    ELSE [threads EXCEPT !.upload.pc = "done", !.upload.code = 500]
  /\ UNCHANGED <<files, documents, audit, last, call>>

\* upload_file: supabase.table("files").insert({...}).execute()
up_files_insert ==
  /\ Racing
  /\ threads.upload.pc = "files"
  /\ \E ins \in {"ok", "raises"} :
       IF ins = "ok"
         THEN /\ files' = files \cup {threads.upload.name}
              /\ threads' = [threads EXCEPT !.upload.pc = "extract"]
         ELSE /\ UNCHANGED files
              /\ threads' = [threads EXCEPT !.upload.pc = "done", !.upload.code = 500]
  /\ UNCHANGED <<documents, audit, last, call>>

\* process_and_store: extract_text, the no_text return, list(chunk_text(text))
up_extract ==
  /\ Racing
  /\ threads.upload.pc = "extract"
  /\ LET text == extract_text(threads.upload.file) IN
     threads' = IF strip(text) = <<>>
                  THEN [threads EXCEPT !.upload.pc = "done", !.upload.code = 200]
                  ELSE [threads EXCEPT !.upload.pc = "chunk", !.upload.i = 0,
                          !.upload.chunks = chunk_text(text, CHUNK_SIZE, CHUNK_OVERLAP).chunks]
  /\ UNCHANGED <<files, documents, audit, last, call>>

\* process_and_store: one turn of the loop, emb = embed_text(chunk) and the
\* insert into "documents"; after the last chunk the handler returns.
up_chunk ==
  /\ Racing
  /\ threads.upload.pc = "chunk"
  /\ LET u == threads.upload IN
     IF u.i >= Len(u.chunks)
       THEN /\ threads' = [threads EXCEPT !.upload.pc = "done", !.upload.code = 200]
            /\ UNCHANGED documents
       ELSE \E o \in ChunkOutcomes :
              LET e == embed_text(o) IN
              IF e.raised \/ o.insert = "raises"
                THEN /\ threads' = [threads EXCEPT !.upload.i = @ + 1]
                     /\ UNCHANGED documents
                ELSE /\ documents' = documents (+)
                          SetToBag({Row(u.name, u.i, u.chunks[u.i + 1], e.emb)})
                     /\ threads' = [threads EXCEPT !.upload.i = @ + 1,
                                                   !.upload.total = @ + 1]
  /\ UNCHANGED <<files, audit, last, call>>

\* delete_file: supabase.storage.from_(BUCKET).remove([name])
del_storage ==
  /\ Racing
  /\ threads.delete.pc = "storage"
  /\ \E rm \in {"ok", "raises"} :
       threads' = IF rm = "ok"
                    THEN [threads EXCEPT !.delete.pc = "files"]
                    ELSE [threads EXCEPT !.delete.pc = "done", !.delete.code = 500]
  /\ UNCHANGED <<files, documents, audit, last, call>>

\* delete_file: supabase.table("files").delete().eq("file_name", name)
del_files ==
  /\ Racing
  /\ threads.delete.pc = "files"
  /\ \E rm \in {"ok", "raises"} :
       IF rm = "ok"
         THEN /\ files' = files \ {threads.delete.name}
              /\ threads' = [threads EXCEPT !.delete.pc = "documents"]
         ELSE /\ UNCHANGED files
              /\ threads' = [threads EXCEPT !.delete.pc = "done", !.delete.code = 500]
  /\ UNCHANGED <<documents, audit, last, call>>

\* delete_file: supabase.table("documents").delete().eq(...), then the reply
del_documents ==
  /\ Racing
  /\ threads.delete.pc = "documents"
  /\ \E rm \in {"ok", "raises"} :
       IF rm = "ok"
         THEN /\ documents' = delete_by_source(documents, threads.delete.name)
              /\ threads' = [threads EXCEPT !.delete.pc = "done", !.delete.code = 200]
         ELSE /\ UNCHANGED documents
              /\ threads' = [threads EXCEPT !.delete.pc = "done", !.delete.code = 500]
  /\ UNCHANGED <<files, audit, last, call>>

NextConc ==
  \/ up_storage \/ up_files_insert \/ up_extract \/ up_chunk
  \/ del_storage \/ del_files \/ del_documents

SpecConc == InitConc /\ [][NextConc]_vars

Called == call.fn \in {"app", "pipeline"}

\* The tokens of the chunks, in order, without the first `overlap` tokens of
\* every chunk after the first.
RECURSIVE Reconstruct(_, _, _)
Reconstruct(chunks, overlap, k) ==
  IF k > Len(chunks) THEN <<>>
  ELSE LET toks == split(chunks[k])
           kept == IF k = 1 THEN toks ELSE SubSeq(toks, overlap + 1, Len(toks))
       IN kept \o Reconstruct(chunks, overlap, k + 1)

\* C1: for 0 <= overlap < size, every token of the text occurs in a chunk and
\* the chunks, with the declared overlap removed from each chunk after the
\* first, give back the token sequence of the text.
Thm_C1 ==
  (Called /\ call.overlap < call.chunk_size) =>
    LET words == split(call.text) IN
    /\ ~call.raised
    /\ \A k \in 1..Len(words) :
         \E c \in 1..Len(call.chunks) :
           \E j \in 1..Len(split(call.chunks[c])) : split(call.chunks[c])[j] = words[k]
    /\ Reconstruct(call.chunks, call.overlap, 1) = words

Wit_C1 ==
  /\ Called
  /\ call.overlap > 0
  /\ call.overlap < call.chunk_size
  /\ Len(call.chunks) >= 2
  /\ Len(split(call.chunks[Len(call.chunks)])) < call.chunk_size
  /\ Reconstruct(call.chunks, call.overlap, 1) = split(call.text)

RECURSIVE TokensLen(_)
TokensLen(words) ==
  IF words = <<>> THEN 0 ELSE Len(Head(words)) + TokensLen(Tail(words))

\* C10 as stated: a text of at most size tokens yields exactly one chunk,
\* equal to the whole input text.
Orig_C10 ==
  (Called /\ Len(split(call.text)) <= call.chunk_size) =>
    call.chunks = <<call.text>>

\* C10 amended: a text of 1..size tokens yields exactly one chunk, the tokens
\* of the text joined by single spaces, which is the input text exactly when
\* the text has no leading, trailing or repeated whitespace; a text without
\* tokens yields no chunk in app.py and one empty chunk in
\* embedding_pipeline.py.
Thm_C10 ==
  (Called /\ Len(split(call.text)) <= call.chunk_size) =>
    LET words == split(call.text) IN
    /\ ~call.raised
    /\ words # <<>> =>
         /\ Len(call.chunks) = 1
         /\ split(call.chunks[1]) = words
         /\ Len(call.chunks[1]) = TokensLen(words) + Len(words) - 1
         /\ (call.chunks[1] = call.text) <=>
              (/\ ~IsSpace(call.text[1])
               /\ ~IsSpace(call.text[Len(call.text)])
               /\ \A i \in 2..Len(call.text) :
                    ~(IsSpace(call.text[i]) /\ IsSpace(call.text[i - 1])))
    /\ (words = <<>> /\ call.fn = "app") => call.chunks = <<>>
    /\ (words = <<>> /\ call.fn = "pipeline") => call.chunks = << <<>> >>

Wit_C10 ==
  /\ Called
  /\ Len(split(call.text)) = call.chunk_size
  /\ Len(call.chunks) = 1
  /\ call.chunks[1] # call.text

(***************************************************************************)
(* Properties of the stores and the requests.                              *)
(***************************************************************************)
\* An ingestion that reached chunking has returned: the web upload or the
\* folder ingestion of one document with text.
Ingested ==
  /\ last.op \in {"upload", "process_file"}
  /\ "chunks" \in DOMAIN last
  /\ last.chunks # <<>>

OkIndices(l) ==
  {i \in 1..Len(l.chunks) : l.outcomes[i].embed = "ok" /\ l.outcomes[i].insert = "ok"}

\* The rows an ingestion should have written: one per chunk whose embedding
\* and insert both succeeded.
ExpectedRows(l) ==
  SetToBag({Row(l.name, i - 1, l.chunks[i], l.outcomes[i].vec) : i \in OkIndices(l)})

SourceBag(docs, name) == [r \in RowsOf(docs, name) |-> docs[r]]

\* C2: after a document has been ingested again, the rows of its source are
\* exactly the rows this ingestion wrote, and no (source_file, chunk_index)
\* pair is held by more than one row.
Orig_C2 ==
  Ingested =>
    /\ SourceBag(documents, last.name) = ExpectedRows(last)
    /\ \A r \in RowsOf(documents, last.name) :
         /\ documents[r] = 1
         /\ \A q \in RowsOf(documents, last.name) :
              q.chunk_index = r.chunk_index => q = r

\* C3: the chunk_index values of the rows of one source_file are pairwise
\* distinct and are 0..n-1.
Orig_C3 ==
  \A name \in Names :
    /\ \A r \in RowsOf(documents, name) :
         /\ documents[r] = 1
         /\ \A q \in RowsOf(documents, name) : q.chunk_index = r.chunk_index => q = r
    /\ {r.chunk_index : r \in RowsOf(documents, name)} = 0..(CountOf(documents, name) - 1)

\* C4 as stated: once a delete request has returned, with a success message
\* or with an error, no row has the name as its source_file.
Orig_C4 ==
  last.op = "delete" => RowsOf(documents, last.name) = {}

\* C4 amended: once a delete request has returned its success message, no
\* row has the name as its source_file and a query restricted to the name
\* has no match; the rows of the other sources are left as they were.
Thm_C4 ==
  (last.op = "delete" /\ last.code = 200) =>
    /\ RowsOf(documents, last.name) = {}
    /\ Matches(documents, {last.name}, TOP_K) = {<<>>}
    /\ \A r \in BagToSet(last.before) :
         r.source_file # last.name =>
           r \in BagToSet(documents) /\ documents[r] = last.before[r]

Wit_C4 ==
  /\ last.op = "delete"
  /\ last.code = 200
  /\ CountOf(last.before, last.name) >= 2
  /\ RowsOf(documents, last.name) = {}
  /\ documents # EmptyBag

\* C5: when retrieval returns no fragment, the reply is the fixed "no
\* relevant materials" response, it names no source, and the generative
\* model has not been called.
Thm_C5 ==
  (last.op = "chat" /\ last.retrieved /\ last.matches = <<>>) =>
    /\ last.code = 200
    /\ last.body.response = NoRelevant
    /\ "sources" \notin DOMAIN last.body
    /\ ~last.prompted

Wit_C5 ==
  /\ last.op = "chat"
  /\ last.retrieved
  /\ last.matches = <<>>
  /\ last.selected_files # {}
  /\ documents # EmptyBag
  /\ last.body.response = NoRelevant

\* C6: the sources list of an answered query is ascending, holds no name
\* twice, and holds exactly the source_file values of the fragments placed
\* in the prompt context.
Orig_C6 ==
  (last.op = "chat" /\ last.code = 200 /\ "sources" \in DOMAIN last.body) =>
    LET src == last.body.sources IN
    /\ \A i, j \in 1..Len(src) : i < j => src[i] < src[j]
    /\ {src[i] : i \in 1..Len(src)} =
         {last.context[k].source_file : k \in 1..Len(last.context)}

\* C7: a failure of the embedding call or of the insert at one chunk index
\* does not stop the ingestion: every chunk index is attempted, the rows
\* written are exactly those of the chunks whose embedding and insert both
\* succeeded, and the ingestion returns its normal result.
Thm_C7 ==
  Ingested =>
    /\ last.attempted = 0..(Len(last.chunks) - 1)
    /\ documents = last.before (+) ExpectedRows(last)
    /\ last.op = "upload" =>
         /\ last.code = 200
         /\ last.body.embedding_result.status = "success"
         /\ last.body.embedding_result.chunks = Cardinality(OkIndices(last))
    /\ last.op = "process_file" => last.body.returned = "None"

Wit_C7 ==
  /\ Ingested
  /\ \E i, j \in 1..Len(last.chunks) :
       /\ i < j
       /\ i \notin OkIndices(last)
       /\ j \in OkIndices(last)
       /\ Row(last.name, j - 1, last.chunks[j], last.outcomes[j].vec) \in BagToSet(documents)

\* C8: the result of an ingestion that reached chunking records the number
\* of chunks attempted, succeeded and failed, with attempted = succeeded +
\* failed.
Orig_C8 ==
  (last.op = "upload" /\ Ingested) =>
    LET res == last.body.embedding_result
        counts == {res[f] : f \in DOMAIN res \ {"status"}}
        attempted == Len(last.chunks)
        succeeded == Cardinality(OkIndices(last))
    IN /\ attempted \in counts
       /\ succeeded \in counts
       /\ (attempted - succeeded) \in counts

\* C9: every stored vector has the one declared length, so no two rows hold
\* vectors of different lengths.
Orig_C9 ==
  \E d \in Dims : \A r \in BagToSet(documents) : r.embedding = d

(***************************************************************************)
(* Properties of the chunkers for a text of more than chunk_size tokens.   *)
(***************************************************************************)
Covered(words, chunks) ==
  \A k \in 1..Len(words) :
    \E c \in 1..Len(chunks) :
      \E j \in 1..Len(split(chunks[c])) : split(chunks[c])[j] = words[k]

\* C11: for a text of more than size tokens and overlap >= size, the chunker
\* ends after at most one chunk per token, and it either raises or yields
\* chunks that hold every token of the text.
Orig_C11 ==
  (Called /\ Len(split(call.text)) > call.chunk_size /\ call.overlap >= call.chunk_size) =>
    /\ Len(call.chunks) <= Len(split(call.text))
    /\ call.raised \/ Covered(split(call.text), call.chunks)

\* The number k of the first window whose end k*step + size reaches n.
LastWindow(n, size, step) ==
  CHOOSE k \in 0..n :
    /\ k * step + size >= n
    /\ \A j \in 0..(k - 1) : j * step + size < n

\* C12: for a text of n > size tokens and overlap < size, chunk k (from 0) is
\* the token window [k*(size-overlap), min(k*(size-overlap)+size, n)), the last
\* chunk is the first window whose end reaches n, no window starts at or
\* after n, and process_and_store writes chunk k with chunk_index k; for
\* n = 1200, size = 500, overlap = 100 the windows are [0:500], [400:900],
\* [800:1200].
Thm_C12 ==
  (Called /\ Len(split(call.text)) > call.chunk_size /\ call.overlap < call.chunk_size) =>
    LET words == split(call.text)
        n == Len(words)
        size == call.chunk_size
        step == size - call.overlap
        lw == LastWindow(n, size, step)
    IN /\ ~call.raised
       /\ Len(call.chunks) = lw + 1
       /\ \A k \in 0..lw :
            /\ k * step < n
            /\ call.chunks[k + 1] = join(SubSeq(words, k * step + 1, Min(k * step + size, n)))
       /\ call.fn = "app" =>
            store_loop(1, call.chunks, all_stored(Len(call.chunks)), 1,
                       [documents |-> EmptyBag, total |-> 0, attempted |-> {}]).documents
              = SetToBag({Row(1, k, call.chunks[k + 1], VECTOR_DIM) : k \in 0..lw})
       /\ windows(1200, 500, app_step(500, 100)).windows
            = << <<0, 500>>, <<400, 900>>, <<800, 1200>> >>
       /\ windows(1200, 500, pipeline_step(500, 100)).windows
            = << <<0, 500>>, <<400, 900>>, <<800, 1200>> >>

Wit_C12 ==
  /\ Called
  /\ call.fn = "app"
  /\ call.overlap > 0
  /\ call.overlap < call.chunk_size
  /\ Len(split(call.text)) > call.chunk_size
  /\ Len(call.chunks) = 3
  /\ call.chunks[3] = join(SubSeq(split(call.text), 3, 4))

(***************************************************************************)
(* Properties of the query path and of the audit table.                    *)
(***************************************************************************)
\* C13: a query whose embedding, retrieval or model call raises is answered
\* with an error body alone (no answer text, no sources), and handling it
\* leaves the audit table as it was.
Thm_C13 ==
  [][(last'.op = "chat" /\ last'.code = 500) =>
       /\ DOMAIN last'.body = {"error"}
       /\ audit' = audit]_vars

Wit_C13 ==
  /\ last.op = "chat"
  /\ last.code = 500
  /\ last.prompted
  /\ Len(last.matches) = TOP_K
  /\ DOMAIN last.body = {"error"}
  /\ audit = <<>>

\* The set srcs of the blocks of a prompt context.
SourcesOf(context) == {context[k].source_file : k \in 1..Len(context)}

\* C14: when the model has answered, the reply is the complete answer with
\* its sources whatever the audit insert did: status 200, the answer followed
\* by the sorted source line, and the sources of the prompt context, each
\* once; the same holds of the reply when the audit insert raised and when
\* it succeeded.
Thm_C14 ==
  (last.op = "chat" /\ "log" \in DOMAIN last) =>
    /\ last.log \in {"ok", "raises"}
    /\ last.code = 200
    /\ last.context = context_loop(last.matches, [blocks |-> <<>>, srcs |-> {}]).blocks
    /\ last.body.response = [ans |-> "ans", src_txt |-> sorted(SourcesOf(last.context))]
    /\ last.body.sources \in list_of_set(SourcesOf(last.context))

Wit_C14 ==
  /\ last.op = "chat"
  /\ "log" \in DOMAIN last
  /\ last.log = "raises"
  /\ last.code = 200
  /\ Len(last.body.sources) = 2
  /\ audit = <<>>

\* C15: a query with a question whose retrieval returned, zero fragments
\* included, and which was answered while the audit insert did not raise,
\* adds exactly one row to the audit table; and no step changes or removes a
\* row the table already holds.
Orig_C15 ==
  [][/\ (/\ last'.op = "chat"
         /\ last'.retrieved
         /\ last'.code = 200
         /\ ("log" \in DOMAIN last' => last'.log = "ok")) =>
          Len(audit') = Len(audit) + 1
     /\ \A i \in 1..Len(audit) : Len(audit') >= i /\ audit'[i] = audit[i]]_vars

(***************************************************************************)
(* Properties of an ingestion of a document without text.                  *)
(***************************************************************************)
\* The extraction gives no text: the format is not supported, the parser
\* raises, or the text is empty or whitespace.
NoText(file) == ~file.supported \/ file.parse_raises \/ strip(file.text) = <<>>

\* C16: an ingestion of a document whose extraction gives no text, an
\* unsupported format and a failing parser included, ends with the "no text"
\* result, requests no embedding and leaves the rows of table "documents" as
\* they were.
Orig_C16 ==
  [][(/\ last'.op \in {"upload", "process_file"}
      /\ "file" \in DOMAIN last'
      /\ NoText(last'.file)) =>
       /\ documents' = documents
       /\ last'.op = "upload" =>
            /\ last'.body.embedding_result = [status |-> "no_text"]
            /\ last'.attempted = {}
       /\ last'.op = "process_file" => last'.body.returned = "skipped"]_vars

(***************************************************************************)
(* Properties of an upload and a delete of one name on concurrent threads. *)
(***************************************************************************)
BothDone ==
  /\ Racing
  /\ threads.upload.pc = "done"
  /\ threads.delete.pc = "done"

\* C17: once an upload and a delete of the same name, handled on concurrent
\* threads, have both returned, table "documents" holds rows of the name
\* only if table "files" holds the name.
Orig_C17 ==
  BothDone =>
    (RowsOf(documents, threads.upload.name) # {} => threads.upload.name \in files)

====
